---- MODULE Spec2Model ----
(***************************************************************************)
(* Model of src/app.py: the Streamlit dashboard over the best-selling      *)
(* games CSV.  One run of the script = load_data, the sidebar filters, and *)
(* the chart views; every user interaction re-runs the whole script.       *)
(*                                                                         *)
(* Conventions.  A text cell / string is a sequence of one-character       *)
(* strings; the empty sequence is an empty CSV cell (read by pandas as     *)
(* NaN).  A nullable value is <<>> (NaN / NaT) or <<v>>.                    *)
(***************************************************************************)
EXTENDS Integers, Sequences, FiniteSets, TLC

VARIABLES
  source,               \* rows of data/bestSelling_games.csv, in file order
  data,                 \* the frame returned by load_data()
  min_downloads,        \* sidebar "Minimum Downloads"
  year_range,           \* sidebar "Release Year Range", <<lo, hi>>
  selected_developers,  \* sidebar "Developers"
  selected_os,          \* sidebar "Supported OS"
  free_only,            \* sidebar "Free Only"
  max_tags,             \* slider "Max genres"
  max_games,            \* slider "Max games per genre"
  filtered,             \* the FilteredView
  treemap_data,         \* treemap chart view
  sb,                   \* sunburst chart view (exploded rows)
  icicle_view,          \* icicle chart view
  td_data,              \* 3D profile chart view
  pc,                   \* "start" | "ran" | "error"
  stable_ties           \* how the build's quicksort orders equal keys

vars == <<source, data, min_downloads, year_range, selected_developers,
          selected_os, free_only, max_tags, max_games, filtered,
          treemap_data, sb, icicle_view, td_data, pc, stable_ties>>

-----------------------------------------------------------------------------
(* Generic helpers                                                         *)

Null == <<>>

Some(v) == <<v>>

IsNull(x) == x = <<>>

Val(x) == x[1]

Min(a, b) == IF a <= b THEN a ELSE b

Range(s) == {s[i] : i \in 1..Len(s)}

\* a function on 1..n as the tuple of its values
AsTuple(f) == f \o <<>>

\* rows of s whose index is in keep, in order (boolean-mask indexing)
FilterSeq(s, keep) ==
  LET kept == keep \cap (1..Len(s))
  IN AsTuple([p \in 1..Cardinality(kept) |->
                s[CHOOSE i \in kept : Cardinality({j \in kept : j <= i}) = p]])

Head_n(s, n) == SubSeq(s, 1, Min(n, Len(s)))

SetMin(S) == CHOOSE x \in S : \A y \in S : x <= y

SetMax(S) == CHOOSE x \in S : \A y \in S : x >= y

-----------------------------------------------------------------------------
(* Text                                                                    *)

Digits == {"0", "1", "2", "3", "4", "5", "6", "7", "8", "9"}

DigitVal(c) ==
  CASE c = "0" -> 0 [] c = "1" -> 1 [] c = "2" -> 2 [] c = "3" -> 3
    [] c = "4" -> 4 [] c = "5" -> 5 [] c = "6" -> 6 [] c = "7" -> 7
    [] c = "8" -> 8 [] c = "9" -> 9

RECURSIVE DecimalValue(_)
DecimalValue(s) ==
  IF s = <<>> THEN 0
  ELSE 10 * DecimalValue(SubSeq(s, 1, Len(s) - 1)) + DigitVal(s[Len(s)])

IsDecimal(s) == s # <<>> /\ \A i \in 1..Len(s) : s[i] \in Digits

\* pd.to_numeric(cell, errors="coerce"): a number, or NaN when the cell is
\* empty or does not parse
to_numeric(cell) ==
  IF IsDecimal(cell) THEN Some(DecimalValue(cell)) ELSE Null

\* position of the first occurrence of character c in s, 0 if none
FirstPos(s, c) ==
  IF \E i \in 1..Len(s) : s[i] = c
  THEN SetMin({i \in 1..Len(s) : s[i] = c})
  ELSE 0

\* pd.to_datetime(cell, errors="coerce"): year "-" month, or NaT
to_datetime(cell) ==
  LET k == FirstPos(cell, "-")
      y == SubSeq(cell, 1, k - 1)
      m == SubSeq(cell, k + 1, Len(cell))
  IN IF k > 0 /\ IsDecimal(y) /\ IsDecimal(m)
          /\ DecimalValue(m) \in 1..12
     THEN Some([year |-> DecimalValue(y), month |-> DecimalValue(m)])
     ELSE Null

\* Series.dt.year
dt_year(d) == IF IsNull(d) THEN Null ELSE Some(Val(d).year)

RECURSIVE str_replace_space(_)
\* .str.replace(" ", "")
str_replace_space(s) ==
  IF s = <<>> THEN <<>>
  ELSE IF Head(s) = " " THEN str_replace_space(Tail(s))
       ELSE <<Head(s)>> \o str_replace_space(Tail(s))

RECURSIVE str_split(_, _)
\* str.split(sep): the pieces between separators (always at least one piece)
str_split(s, sep) ==
  LET k == FirstPos(s, sep)
  IN IF k = 0 THEN <<s>>
     ELSE <<SubSeq(s, 1, k - 1)>> \o str_split(SubSeq(s, k + 1, Len(s)), sep)

RECURSIVE str_strip(_)
\* str.strip(): leading and trailing blanks removed
str_strip(s) ==
  IF s = <<>> THEN <<>>
  ELSE IF Head(s) = " " THEN str_strip(Tail(s))
  ELSE IF s[Len(s)] = " " THEN str_strip(SubSeq(s, 1, Len(s) - 1))
  ELSE s

RECURSIVE str_join(_, _)
\* sep.join(list)
str_join(list, sep) ==
  IF list = <<>> THEN <<>>
  ELSE IF Len(list) = 1 THEN list[1]
  ELSE list[1] \o <<sep>> \o str_join(Tail(list), sep)

-----------------------------------------------------------------------------
(* load_data                                                               *)

RawRow(g, dv, p, dl, rd, os, tags, rt, df, ln) ==
  [game_name |-> g, developer |-> dv, price |-> p,
   estimated_downloads |-> dl, release_date |-> rd, supported_os |-> os,
   user_defined_tags |-> tags, rating |-> rt, difficulty |-> df,
   length |-> ln]

\* a text column as read by read_csv: an empty cell is NaN
TextCell(cell) == IF cell = <<>> THEN Null ELSE Some(cell)

\* lines 12-18: the columns coerced, the row's index label kept
Coerce(raw, i) ==
  [idx |-> i,
   game_name |-> raw.game_name,
   developer |-> raw.developer,
   price |-> to_numeric(raw.price),
   rating |-> to_numeric(raw.rating),
   estimated_downloads |-> to_numeric(raw.estimated_downloads),
   release_date |-> to_datetime(raw.release_date),
   user_defined_tags |-> raw.user_defined_tags,
   supported_os |-> TextCell(raw.supported_os),
   difficulty |-> TextCell(raw.difficulty),
   length |-> TextCell(raw.length)]

DupKey(r) == <<r.game_name, r.developer>>

\* a variant that keeps the last row of each key
drop_duplicates_last(rows) ==
  FilterSeq(rows, {i \in 1..Len(rows) :
                     \A j \in (i + 1)..Len(rows) : DupKey(rows[j]) # DupKey(rows[i])})

\* line 19: drop_duplicates(subset=["game_name","developer"]), keep="first"
drop_duplicates(rows) ==
  FilterSeq(rows, {i \in 1..Len(rows) :
                     \A j \in 1..(i - 1) : DupKey(rows[j]) # DupKey(rows[i])})

\* a variant without fillna(0): NaN == 0 is False
is_free_nofill(price) == IF price = Some(0) THEN 1 ELSE 0

\* line 22: (price.fillna(0) == 0).astype(int)
is_free_of(price) ==
  LET filled == IF IsNull(price) THEN 0 ELSE Val(price)
  IN IF filled = 0 THEN 1 ELSE 0

\* lines 20-22: the derived columns
Derive(r) ==
  [idx |-> r.idx, game_name |-> r.game_name, developer |-> r.developer,
   price |-> r.price, rating |-> r.rating,
   estimated_downloads |-> r.estimated_downloads,
   release_date |-> r.release_date,
   user_defined_tags |-> r.user_defined_tags,
   supported_os |-> r.supported_os, difficulty |-> r.difficulty,
   length |-> r.length,
   release_year |-> dt_year(r.release_date),
   is_free |-> is_free_of(r.price)]

load_data(src) ==
  LET coerced == AsTuple([i \in 1..Len(src) |-> Coerce(src[i], i)])
      deduped == drop_duplicates(coerced)
  IN AsTuple([i \in 1..Len(deduped) |-> Derive(deduped[i])])

-----------------------------------------------------------------------------
(* Sorting                                                                 *)

\* DataFrame.sort_values: before holds the pairs <<j, i>> of positions whose
\* row j must come before row i in the order asked for.  The default kind is
\* quicksort, which promises nothing about equal keys: ties stay in frame
\* order when ties_stable, and come out reversed otherwise.
sort_values(s, before, ties_stable) ==
  LET n == Len(s)
      rank == AsTuple([i \in 1..n |->
                 Cardinality({j \in 1..n :
                    \/ <<j, i>> \in before
                    \/ /\ <<i, j>> \notin before
                       /\ IF ties_stable THEN j < i ELSE j > i})])
  IN AsTuple([p \in 1..n |-> s[CHOOSE i \in 1..n : rank[i] = p - 1]])

Pairs(s) == (1..Len(s)) \X (1..Len(s))

\* descending on a nullable numeric column whose values are all present
DescBy(s, col) == {p \in Pairs(s) : Val(s[p[1]][col]) > Val(s[p[2]][col])}

by_downloads_desc(s, ties_stable) ==
  sort_values(s, DescBy(s, "estimated_downloads"), ties_stable)

-----------------------------------------------------------------------------
(* Sidebar: option lists and defaults, lines 31-38                         *)

NonNull(rows, col) == {Val(rows[i][col]) : i \in {j \in 1..Len(rows) : ~IsNull(rows[j][col])}}

\* int(NaN) raises ValueError: lines 31-32 need a maximum of
\* estimated_downloads and a minimum and maximum of release_year
WidgetsRaise(d) ==
  NonNull(d, "estimated_downloads") = {} \/ NonNull(d, "release_year") = {}

download_max(d) == SetMax(NonNull(d, "estimated_downloads"))

year_min(d) == SetMin(NonNull(d, "release_year"))

year_max(d) == SetMax(NonNull(d, "release_year"))

\* line 33
developers(d) == {d[i].developer : i \in 1..Len(d)}

\* lines 35-36
os_options(d) ==
  UNION {Range(str_split(str_replace_space(os), ",")) : os \in NonNull(d, "supported_os")}
    \ {<<>>}

-----------------------------------------------------------------------------
(* Filter pipeline, lines 40-49                                            *)

\* a variant that narrows the previous run's view
FilterBasePrevious(d, previous) == previous

\* line 40: filtered = data.copy()
FilterBase(d, previous) == d

\* a variant without the "if selected_developers" guard
developer_step_unguarded(f, devs) ==
  FilterSeq(f, {i \in 1..Len(f) : f[i].developer \in devs})

\* lines 41-42
developer_step(f, devs) ==
  IF devs # {}
  THEN FilterSeq(f, {i \in 1..Len(f) : f[i].developer \in devs})
  ELSE f

RECURSIVE SetToSeq(_)
SetToSeq(S) ==
  IF S = {} THEN <<>>
  ELSE LET x == CHOOSE y \in S : TRUE IN <<x>> \o SetToSeq(S \ {x})

\* one alternative of the pattern against s at position pos; "." matches
\* any character
MatchAt(alt, s, pos) ==
  \A k \in 1..Len(alt) :
    /\ pos + k - 1 <= Len(s)
    /\ (alt[k] = "." \/ alt[k] = s[pos + k - 1])

\* re.search(pattern, s) for a pattern of alternatives joined by "|"
re_search(pattern, s) ==
  \E alt \in Range(str_split(pattern, "|")) :
    \E pos \in 1..(Len(s) + 1) : MatchAt(alt, s, pos)

\* line 45: supported_os.fillna("").str.replace(" ", "")
os_text(r) ==
  str_replace_space(IF IsNull(r.supported_os) THEN <<>> ELSE Val(r.supported_os))

\* lines 43-45: str.contains(pattern) is a regular-expression search
os_step(f, oss) ==
  IF oss # {}
  THEN LET pattern == str_join(SetToSeq(oss), "|")
       IN FilterSeq(f, {i \in 1..Len(f) : re_search(pattern, os_text(f[i]))})
  ELSE f

\* line 46: NaN >= n is False
downloads_step(f, n) ==
  FilterSeq(f, {i \in 1..Len(f) :
                  /\ ~IsNull(f[i].estimated_downloads)
                  /\ Val(f[i].estimated_downloads) >= n})

\* line 47
year_step(f, yr) ==
  FilterSeq(f, {i \in 1..Len(f) :
                  /\ ~IsNull(f[i].release_year)
                  /\ Val(f[i].release_year) >= yr[1]
                  /\ Val(f[i].release_year) <= yr[2]})

\* a variant that tests the derived is_free column
free_step_is_free(f, flag) ==
  IF flag THEN FilterSeq(f, {i \in 1..Len(f) : f[i].is_free = 1}) ELSE f

\* lines 48-49
free_step(f, flag) ==
  IF flag THEN FilterSeq(f, {i \in 1..Len(f) : f[i].price = Some(0)}) ELSE f

\* a variant whose free-only step selects from the loaded frame again
FilterStepFreeFromData(k, f, devs, oss, n, yr, flag) ==
  CASE k = 1 -> developer_step(f, devs)
    [] k = 2 -> os_step(f, oss)
    [] k = 3 -> downloads_step(f, n)
    [] k = 4 -> year_step(f, yr)
    [] k = 5 -> free_step(IF flag THEN load_data(source) ELSE f, flag)

\* the five steps by position in the script
FilterStep(k, f, devs, oss, n, yr, flag) ==
  CASE k = 1 -> developer_step(f, devs)
    [] k = 2 -> os_step(f, oss)
    [] k = 3 -> downloads_step(f, n)
    [] k = 4 -> year_step(f, yr)
    [] k = 5 -> free_step(f, flag)

RECURSIVE ApplySteps(_, _, _, _, _, _, _)
\* the steps applied to f in the given order
ApplySteps(order, f, devs, oss, n, yr, flag) ==
  IF order = <<>> THEN f
  ELSE ApplySteps(Tail(order), FilterStep(Head(order), f, devs, oss, n, yr, flag),
                  devs, oss, n, yr, flag)

ScriptOrder == <<1, 2, 3, 4, 5>>

apply_filters(d, previous, devs, oss, n, yr, flag) ==
  ApplySteps(ScriptOrder, FilterBase(d, previous), devs, oss, n, yr, flag)
-----------------------------------------------------------------------------
(* Chart views                                                             *)

\* lines 69-70
treemap_of(f) ==
  AsTuple([i \in 1..Len(f) |->
     [idx |-> f[i].idx, developer |-> f[i].developer,
      game_name |-> f[i].game_name,
      estimated_downloads |-> f[i].estimated_downloads,
      is_free_label |-> IF f[i].is_free = 0 THEN "Paid" ELSE "Free"]])

SunburstTop == 10

RECURSIVE Flatten(_)
Flatten(ss) == IF ss = <<>> THEN <<>> ELSE Head(ss) \o Flatten(Tail(ss))

\* lines 98-100: one row per comma-separated piece, stripped
explode_tags(r) ==
  LET pieces == str_split(r.user_defined_tags, ",")
  IN AsTuple([k \in 1..Len(pieces) |->
        [idx |-> r.idx, game_name |-> r.game_name, developer |-> r.developer,
         estimated_downloads |-> r.estimated_downloads,
         tags_list |-> str_strip(pieces[k])]])

\* line 102: groupby("game_name")["tags_list"].transform("count")
tag_count(rows, r) ==
  Cardinality({i \in 1..Len(rows) : rows[i].game_name = r.game_name})

\* lines 97-102; downloads_weight is the exact quotient num / den
sunburst_of(f, ties_stable) ==
  LET top == Head_n(by_downloads_desc(f, ties_stable), SunburstTop)
      exploded == Flatten(AsTuple([i \in 1..Len(top) |-> explode_tags(top[i])]))
      kept == FilterSeq(exploded, {i \in 1..Len(exploded) :
                                     exploded[i].tags_list # <<>>})
  IN AsTuple([i \in 1..Len(kept) |->
        LET c == tag_count(kept, kept[i])
        IN [idx |-> kept[i].idx, game_name |-> kept[i].game_name,
            developer |-> kept[i].developer,
            tags_list |-> kept[i].tags_list,
            estimated_downloads |-> kept[i].estimated_downloads,
            downloads_weight |->
              [num |-> Val(kept[i].estimated_downloads),
               den |-> IF c = 0 THEN 1 ELSE c]]])

Unknown == <<"U", "n", "k", "n", "o", "w", "n">>

\* lines 123-124
primary_tag(r) ==
  LET t == str_strip(str_split(r.user_defined_tags, ",")[1])
  IN IF t = <<>> THEN Unknown ELSE t

\* the characters of the model in code-point order
CodePoints == <<" ", ",", "-", ".", "0", "1", "2", "3", "4", "5", "6", "7",
                "8", "9", "A", "B", "C", "D", "U", "k", "m", "n", "o", "w",
                "x", "|">>

ord(c) == FirstPos(CodePoints, c)

RECURSIVE StrLess(_, _)
\* a < b on Python strings
StrLess(a, b) ==
  IF b = <<>> THEN FALSE
  ELSE IF a = <<>> THEN TRUE
  ELSE IF Head(a) = Head(b) THEN StrLess(Tail(a), Tail(b))
  ELSE ord(Head(a)) < ord(Head(b))

RECURSIVE SumDownloads(_)
SumDownloads(rows) ==
  IF rows = <<>> THEN 0
  ELSE Val(Head(rows).estimated_downloads) + SumDownloads(Tail(rows))

\* a variant that ranks the tags ascending
top_tags_ascending(rows, n, ties_stable) ==
  LET names == SetToSeq({r.primary_tag : r \in Range(rows)})
      groups == sort_values(names,
                  {p \in Pairs(names) : StrLess(names[p[1]], names[p[2]])}, TRUE)
      sums == AsTuple([i \in 1..Len(groups) |->
                 [primary_tag |-> groups[i],
                  estimated_downloads |->
                    SumDownloads(FilterSeq(rows, {j \in 1..Len(rows) :
                                     rows[j].primary_tag = groups[i]}))]])
      ranked == sort_values(sums,
                  {p \in Pairs(sums) : sums[p[1]].estimated_downloads
                                         < sums[p[2]].estimated_downloads},
                  ties_stable)
  IN {r.primary_tag : r \in Range(Head_n(ranked, n))}

\* lines 128-129: groupby(primary_tag).sum(), sorted descending, head(max_tags)
top_tags(rows, n, ties_stable) ==
  LET names == SetToSeq({r.primary_tag : r \in Range(rows)})
      groups == sort_values(names,
                  {p \in Pairs(names) : StrLess(names[p[1]], names[p[2]])}, TRUE)
      sums == AsTuple([i \in 1..Len(groups) |->
                 [primary_tag |-> groups[i],
                  estimated_downloads |->
                    SumDownloads(FilterSeq(rows, {j \in 1..Len(rows) :
                                     rows[j].primary_tag = groups[i]}))]])
      ranked == sort_values(sums,
                  {p \in Pairs(sums) : sums[p[1]].estimated_downloads
                                         > sums[p[2]].estimated_downloads},
                  ties_stable)
  IN {r.primary_tag : r \in Range(Head_n(ranked, n))}

\* groupby(key).head(n): the first n rows of each group, in frame order
groupby_head(rows, n) ==
  FilterSeq(rows, {i \in 1..Len(rows) :
     Cardinality({j \in 1..i : rows[j].primary_tag = rows[i].primary_tag}) <= n})

\* lines 122-132
icicle_of(f, n_tags, n_games, ties_stable) ==
  LET tagged == AsTuple([i \in 1..Len(f) |->
                   [idx |-> f[i].idx, game_name |-> f[i].game_name,
                    estimated_downloads |-> f[i].estimated_downloads,
                    primary_tag |-> primary_tag(f[i])]])
      tops == top_tags(tagged, n_tags, ties_stable)
      in_top == FilterSeq(tagged, {i \in 1..Len(tagged) :
                                     tagged[i].primary_tag \in tops})
      sorted == sort_values(in_top,
                  {p \in Pairs(in_top) :
                     \/ StrLess(in_top[p[2]].primary_tag, in_top[p[1]].primary_tag)
                     \/ /\ in_top[p[1]].primary_tag = in_top[p[2]].primary_tag
                        /\ p \in DescBy(in_top, "estimated_downloads")},
                  ties_stable)
  IN by_downloads_desc(groupby_head(sorted, n_games), ties_stable)

TdTop == 200

\* a variant that reads the filtered view
TdSourceFiltered(d, f) == f

\* line 138 reads the global data frame, not filtered
TdSource(d, f) == d

\* lines 138-139
td_of(d, f, ties_stable) ==
  LET frame == TdSource(d, f)
      complete == FilterSeq(frame, {i \in 1..Len(frame) :
                    /\ ~IsNull(frame[i].difficulty)
                    /\ ~IsNull(frame[i].length)
                    /\ ~IsNull(frame[i].rating)})
      cols == AsTuple([i \in 1..Len(complete) |->
                 [idx |-> complete[i].idx,
                  difficulty |-> complete[i].difficulty,
                  length |-> complete[i].length,
                  rating |-> complete[i].rating,
                  game_name |-> complete[i].game_name,
                  developer |-> complete[i].developer]])
  IN Head_n(sort_values(cols, DescBy(cols, "rating"), ties_stable), TdTop)

-----------------------------------------------------------------------------
(* One run of the script                                                   *)

MaxTagsDefault == 8

MaxGamesDefault == 10

\* the script from top to bottom with the widgets at the given values
Run(n, yr, devs, oss, flag, n_tags, n_games) ==
  /\ data' = load_data(source)
  /\ min_downloads' = n
  /\ year_range' = yr
  /\ selected_developers' = devs
  /\ selected_os' = oss
  /\ free_only' = flag
  /\ max_tags' = n_tags
  /\ max_games' = n_games
  /\ filtered' = apply_filters(data', filtered, devs, oss, n, yr, flag)
  /\ treemap_data' = treemap_of(filtered')
  /\ sb' = sunburst_of(filtered', stable_ties)
  /\ icicle_view' = icicle_of(filtered', n_tags, n_games, stable_ties)
  /\ td_data' = td_of(data', filtered', stable_ties)
  /\ pc' = "ran"
  /\ UNCHANGED <<source, stable_ties>>

\* the first run: every widget at its default; lines 31-32 raise when the
\* frame has no estimated_downloads or no release_year at all
FirstRun ==
  /\ pc = "start"
  /\ LET d == load_data(source)
     IN IF WidgetsRaise(d)
        THEN /\ data' = d
             /\ pc' = "error"
             /\ UNCHANGED <<source, min_downloads, year_range,
                            selected_developers, selected_os, free_only,
                            max_tags, max_games, filtered, treemap_data, sb,
                            icicle_view, td_data, stable_ties>>
        ELSE Run(0, <<year_min(d), year_max(d)>>, {}, {}, FALSE,
                 MaxTagsDefault, MaxGamesDefault)

SetMinDownloads ==
  /\ pc = "ran"
  /\ \E n \in 0..download_max(data) :
       /\ n # min_downloads
       /\ Run(n, year_range, selected_developers, selected_os, free_only,
              max_tags, max_games)

SetYearRange ==
  /\ pc = "ran"
  /\ \E lo \in year_min(data)..year_max(data) :
       \E hi \in lo..year_max(data) :
         /\ <<lo, hi>> # year_range
         /\ Run(min_downloads, <<lo, hi>>, selected_developers, selected_os,
                free_only, max_tags, max_games)

SetDevelopers ==
  /\ pc = "ran"
  /\ \E devs \in SUBSET developers(data) :
       /\ devs # selected_developers
       /\ Run(min_downloads, year_range, devs, selected_os, free_only,
              max_tags, max_games)

SetOS ==
  /\ pc = "ran"
  /\ \E oss \in SUBSET os_options(data) :
       /\ oss # selected_os
       /\ Run(min_downloads, year_range, selected_developers, oss, free_only,
              max_tags, max_games)

SetFreeOnly ==
  /\ pc = "ran"
  /\ Run(min_downloads, year_range, selected_developers, selected_os,
         ~free_only, max_tags, max_games)

MaxTagsMin == 3

MaxGamesMin == 3

\* the sliders reach 30 and 50; the model stops SliderSpan above the minimum
SliderSpan == 0

SetMaxTags ==
  /\ pc = "ran"
  /\ \E n_tags \in MaxTagsMin..(MaxTagsMin + SliderSpan) \cup {MaxTagsDefault} :
       /\ n_tags # max_tags
       /\ Run(min_downloads, year_range, selected_developers, selected_os,
              free_only, n_tags, max_games)

SetMaxGames ==
  /\ pc = "ran"
  /\ \E n_games \in MaxGamesMin..(MaxGamesMin + SliderSpan) \cup {MaxGamesDefault} :
       /\ n_games # max_games
       /\ Run(min_downloads, year_range, selected_developers, selected_os,
              free_only, max_tags, n_games)
-----------------------------------------------------------------------------
(* Sources and specifications                                              *)

SeqsUpTo(T, n) == UNION {[1..k -> T] : k \in 1..n}

\* before the first run: no frame, no view, the widgets not yet drawn
Start(sources) ==
  /\ source \in sources
  /\ stable_ties \in BOOLEAN
  /\ data = <<>>
  /\ min_downloads = 0
  /\ year_range = <<0, 0>>
  /\ selected_developers = {}
  /\ selected_os = {}
  /\ free_only = FALSE
  /\ max_tags = MaxTagsDefault
  /\ max_games = MaxGamesDefault
  /\ filtered = <<>>
  /\ treemap_data = <<>>
  /\ sb = <<>>
  /\ icicle_view = <<>>
  /\ td_data = <<>>
  /\ pc = "start"

\* CSV files for load_data: rows that repeat (game_name, developer) pairs,
\* with price cells that are zero, positive, unparsable or empty
MaxLoadRows == 3

LoadRows ==
  {RawRow(k[1], k[2], p, <<"1">>, <<"1", "-", "1">>, <<"w">>, <<"A">>,
          <<"1">>, <<"1">>, <<"1">>) :
     k \in {<<"G1", "D1">>, <<"G1", "D2">>, <<"G2", "D1">>},
     p \in {<<"0">>, <<"5">>, <<"x">>, <<>>}}

InitLoad == Start(SeqsUpTo(LoadRows, MaxLoadRows))

NextLoad == FirstRun

SpecLoad == InitLoad /\ [][NextLoad]_vars

\* CSV files for the filters: two developers, downloads and years present,
\* unparsable or empty, prices zero, positive, unparsable or empty, and the
\* 3D columns present or missing
MaxRows == 2

FilterRows ==
  {RawRow("G1", "D1", <<"0">>, <<"2">>, <<"1", "-", "1">>, <<"w">>, <<"A">>,
          <<"3">>, <<"1">>, <<"1">>),
   RawRow("G2", "D2", <<"5">>, <<"1">>, <<"2", "-", "1">>, <<"w">>, <<"B">>,
          <<"x">>, <<"1">>, <<"1">>),
   RawRow("G3", "D1", <<>>, <<>>, <<"1", "-", "1">>, <<"w">>, <<"A">>,
          <<"3">>, <<"1">>, <<"1">>),
   RawRow("G4", "D2", <<"0">>, <<"2">>, <<"1", "-", "1", "3">>, <<>>, <<>>,
          <<"1">>, <<"1">>, <<"1">>),
   RawRow("G5", "D1", <<"x">>, <<"1">>, <<"2", "-", "6">>, <<"w">>, <<"A", ",", "B">>,
          <<"2">>, <<"1">>, <<>>)}

Init == Start(SeqsUpTo(FilterRows, MaxRows))

Next ==
  \/ FirstRun
  \/ SetMinDownloads
  \/ SetYearRange
  \/ SetDevelopers
  \/ SetOS
  \/ SetFreeOnly

Spec == Init /\ [][Next]_vars

\* CSV files for the OS filter: supported_os cells with blanks, several
\* tokens, a token inside another, a token holding "." and an empty cell
MaxOsRows == 2

OsRow(g, os) ==
  RawRow(g, "D1", <<"0">>, <<"1">>, <<"1", "-", "1">>, os, <<"A">>,
         <<"1">>, <<"1">>, <<"1">>)

OsRows ==
  {OsRow("G1", <<>>),
   OsRow("G2", <<"w">>),
   OsRow("G3", <<"m", ",", " ", "w">>),
   OsRow("G4", <<"w", ".", "w">>),
   OsRow("G5", <<"w", "m", "w">>)}

InitOS == Start(SeqsUpTo(OsRows, MaxOsRows))

NextOS == FirstRun \/ SetOS

SpecOS == InitOS /\ [][NextOS]_vars
\* CSV files for the charts: ten fixed rows over five primary tags, followed
\* by up to MaxChartRows rows that repeat a game name under another
\* developer, or carry several tags or a blank tag
MaxChartRows == 2

ChartRow(g, dv, p, dl, tags) ==
  RawRow(g, dv, p, dl, <<"1", "-", "1">>, <<"w">>, tags, <<"1">>, <<"1">>, <<"1">>)

FixedChartRows ==
  <<ChartRow("F0", "D1", <<"0">>, <<"5">>, <<"A">>),
    ChartRow("F1", "D1", <<"5">>, <<"4">>, <<"A", ",", "B">>),
    ChartRow("F2", "D1", <<"0">>, <<"3">>, <<"A">>),
    ChartRow("F3", "D1", <<"5">>, <<"3">>, <<"A", " ">>),
    ChartRow("F4", "D1", <<"0">>, <<"4">>, <<"B">>),
    ChartRow("F5", "D1", <<"0">>, <<"2">>, <<"B", ",", "A">>),
    ChartRow("F6", "D1", <<"5">>, <<"3">>, <<"C">>),
    ChartRow("F7", "D1", <<"0">>, <<"3">>, <<"C">>),
    ChartRow("F8", "D1", <<"0">>, <<"6">>, <<"D">>),
    ChartRow("F9", "D1", <<"5">>, <<"6">>, <<>>)>>

ChartRows ==
  {ChartRow("F1", "D2", <<"0">>, <<"7">>, <<"B">>),
   ChartRow("G1", "D2", <<"5">>, <<"9">>, <<"C", ",", " ", "D">>),
   ChartRow("G1", "D1", <<"0">>, <<"1">>, <<"C">>),
   ChartRow("G2", "D2", <<"0">>, <<"4">>, <<" ", ",", "D">>)}

InitCharts ==
  Start({FixedChartRows \o tail : tail \in SeqsUpTo(ChartRows, MaxChartRows)})

NextCharts == FirstRun \/ SetMaxTags \/ SetMaxGames \/ SetFreeOnly

SpecCharts == InitCharts /\ [][NextCharts]_vars
-----------------------------------------------------------------------------
(* Properties                                                              *)

IdxOf(rows) == {rows[i].idx : i \in 1..Len(rows)}

RowsOf(rows, i) == FilterSeq(rows, {n \in 1..Len(rows) : rows[n].idx = i})

SourceKey(i) == <<source[i].game_name, source[i].developer>>

\* the rows of the source that are the first with their (game_name, developer)
FirstOccurrences ==
  {i \in 1..Len(source) : \A j \in 1..(i - 1) : SourceKey(j) # SourceKey(i)}

\* C5: after load_data no two records share (game_name, developer); the
\* records kept are exactly the first occurrences of each pair in the source,
\* with their own cells, in source order.
C5_DedupKeepsFirst ==
  pc # "start" =>
    /\ \A n, m \in 1..Len(data) :
         n # m => <<data[n].game_name, data[n].developer>>
                    # <<data[m].game_name, data[m].developer>>
    /\ IdxOf(data) = FirstOccurrences
    /\ \A n, m \in 1..Len(data) : n < m => data[n].idx < data[m].idx
    /\ \A n \in 1..Len(data) :
         /\ <<data[n].game_name, data[n].developer>> = SourceKey(data[n].idx)
         /\ data[n].price = to_numeric(source[data[n].idx].price)

\* C5 witness: a source of three rows whose first and third share the pair
\* but not the price, loaded to two records.
C5_Witness ==
  /\ pc = "ran"
  /\ Len(source) = 3
  /\ Len(data) = 2
  /\ SourceKey(1) = SourceKey(3)
  /\ SourceKey(1) # SourceKey(2)
  /\ to_numeric(source[1].price) # to_numeric(source[3].price)

\* C6: in every loaded record is_free is 0 or 1, and it is 1 exactly when the
\* price is null (an empty cell or one that failed coercion) or zero.
C6_IsFreeIffNullOrZero ==
  pc # "start" =>
    \A n \in 1..Len(data) :
      /\ data[n].is_free \in {0, 1}
      /\ data[n].is_free = 1 <=> (IsNull(data[n].price) \/ data[n].price = Some(0))
      /\ ~IsDecimal(source[data[n].idx].price) => data[n].is_free = 1

\* C6 witness: loaded records with an unparsable price cell, an empty one, a
\* zero and a positive price.
C6_Witness ==
  /\ pc = "ran"
  /\ \E n \in 1..Len(data) :
       source[data[n].idx].price = <<"x">> /\ data[n].is_free = 1
  /\ \E n \in 1..Len(data) :
       source[data[n].idx].price = <<>> /\ data[n].is_free = 1
  /\ \E n \in 1..Len(data) : data[n].price = Some(5) /\ data[n].is_free = 0

AtDefaults ==
  /\ selected_developers = {}
  /\ selected_os = {}
  /\ min_downloads = 0
  /\ year_range = <<year_min(data), year_max(data)>>
  /\ ~free_only

PassesDevelopers(r) ==
  selected_developers = {} \/ r.developer \in selected_developers

PassesOS(r) ==
  selected_os = {} \/ \E tok \in selected_os :
                        \E pos \in 1..(Len(os_text(r)) + 1) : MatchAt(tok, os_text(r), pos)

PassesDownloads(r) ==
  ~IsNull(r.estimated_downloads) /\ Val(r.estimated_downloads) >= min_downloads

PassesYear(r) ==
  /\ ~IsNull(r.release_year)
  /\ Val(r.release_year) >= year_range[1]
  /\ Val(r.release_year) <= year_range[2]

PassesFree(r) == free_only => r.price = Some(0)

StepOrders == Permutations(1..5)

\* C3: the steps applied to the cleaned dataset in any of the 120 orders give
\* the FilteredView of the script's order, and a record is in the
\* FilteredView iff it passes every predicate on its own.
C3_FilterOrderIrrelevant ==
  pc = "ran" =>
    /\ \A order \in StepOrders :
         ApplySteps(order, data, selected_developers, selected_os,
                    min_downloads, year_range, free_only) = filtered
    /\ \A i \in 1..Len(data) :
         data[i] \in Range(filtered) <=>
           /\ PassesDevelopers(data[i])
           /\ PassesOS(data[i])
           /\ PassesDownloads(data[i])
           /\ PassesYear(data[i])
           /\ PassesFree(data[i])

\* C3 witness: all five predicates active, one record kept and one dropped.
C3_Witness ==
  /\ pc = "ran"
  /\ selected_developers # {}
  /\ selected_os # {}
  /\ min_downloads > 0
  /\ free_only
  /\ filtered # <<>>
  /\ Len(filtered) < Len(data)

TdComplete ==
  {i \in 1..Len(data) : /\ ~IsNull(data[i].difficulty)
                        /\ ~IsNull(data[i].length)
                        /\ ~IsNull(data[i].rating)}

\* C4: the 3D view is made of the cleaned dataset alone: the complete rows,
\* highest rating first, at most 200 of them, whatever the filters are; an
\* interaction that changes a filter leaves it as it was.
C4_TdBypassesFilters ==
  /\ [](pc = "ran" =>
          /\ Len(td_data) = Min(TdTop, Cardinality(TdComplete))
          /\ IdxOf(td_data) \subseteq {data[i].idx : i \in TdComplete}
          /\ Cardinality(IdxOf(td_data)) = Len(td_data)
          /\ \A n, m \in 1..Len(td_data) :
               n < m => Val(td_data[n].rating) >= Val(td_data[m].rating)
          /\ \A i \in TdComplete :
               data[i].idx \notin IdxOf(td_data) =>
                 \A n \in 1..Len(td_data) :
                   Val(td_data[n].rating) >= Val(data[i].rating))
  /\ [][pc = "ran" => td_data' = td_data]_vars

\* C4 witness: with a developer selected, the 3D view shows a record that the
\* FilteredView does not hold.
C4_Witness ==
  /\ pc = "ran"
  /\ selected_developers # {}
  /\ filtered # <<>>
  /\ \E n \in 1..Len(td_data) : td_data[n].idx \notin IdxOf(filtered)

\* C9: after any sequence of interactions the cleaned dataset is what
\* load_data makes of the source, and the FilteredView is the records of it
\* that pass the predicates at the current parameters, in dataset order.
C9_ViewOfCurrentParams ==
  pc = "ran" =>
    /\ data = load_data(source)
    /\ filtered = FilterSeq(data, {i \in 1..Len(data) :
                                     /\ PassesDevelopers(data[i])
                                     /\ PassesOS(data[i])
                                     /\ PassesDownloads(data[i])
                                     /\ PassesYear(data[i])
                                     /\ PassesFree(data[i])})

\* C9 witness: a run after at least two interactions (a developer selected
\* and the minimum raised) that keeps one record out of two.
C9_Witness ==
  /\ pc = "ran"
  /\ selected_developers # {}
  /\ min_downloads > 0
  /\ ~free_only
  /\ Len(data) = 2
  /\ Len(filtered) = 1

\* C10: under free_only every record of the FilteredView has price exactly 0,
\* is_free 1 and the treemap label "Free"; a record with a null price has
\* is_free 1, is labelled "Free" wherever the treemap shows it, and is in no
\* free_only FilteredView.
C10_FreeOnlyIsPriceZero ==
  pc = "ran" =>
    /\ free_only =>
         /\ \A r \in Range(filtered) : r.price = Some(0) /\ r.is_free = 1
         /\ \A t \in Range(treemap_data) : t.is_free_label = "Free"
    /\ IdxOf(treemap_data) = IdxOf(filtered)
    /\ \A r \in Range(data) :
         IsNull(r.price) =>
           /\ r.is_free = 1
           /\ free_only => r.idx \notin IdxOf(filtered)
           /\ \A t \in Range(treemap_data) :
                t.idx = r.idx => t.is_free_label = "Free"

\* C10 witness: a free_only run that keeps a zero-price record while the
\* dataset holds a null-price record that passes every other predicate.
C10_Witness ==
  /\ pc = "ran"
  /\ free_only
  /\ filtered # <<>>
  /\ \E r \in Range(data) :
       /\ IsNull(r.price)
       /\ PassesDevelopers(r) /\ PassesOS(r) /\ PassesDownloads(r) /\ PassesYear(r)

\* tok occurs in s as a contiguous substring
IsSubstring(tok, s) ==
  \E pos \in 1..(Len(s) - Len(tok) + 1) : SubSeq(s, pos, pos + Len(tok) - 1) = tok

\* C7 as claimed: under a non-empty OS selection a record passes iff its
\* supported_os, blanks removed, contains one of the selected tokens as a
\* substring; a null supported_os never passes.  (The sources of SpecOS pass
\* every other predicate.)
C7_OsSubstringMatch ==
  (pc = "ran" /\ selected_os # {}) =>
    \A r \in Range(data) :
      r.idx \in IdxOf(filtered) <=>
        /\ ~IsNull(r.supported_os)
        /\ \E tok \in selected_os :
             IsSubstring(tok, str_replace_space(Val(r.supported_os)))

RECURSIVE FracSum(_)
\* the exact sum of a sequence of quotients
FracSum(ws) ==
  IF ws = <<>> THEN [num |-> 0, den |-> 1]
  ELSE LET rest == FracSum(Tail(ws))
           w == Head(ws)
       IN [num |-> w.num * rest.den + rest.num * w.den, den |-> w.den * rest.den]

NonEmptyTags(r) ==
  LET pieces == str_split(r.user_defined_tags, ",")
  IN Cardinality({k \in 1..Len(pieces) : str_strip(pieces[k]) # <<>>})

\* fewer than ten other records have as many downloads: in any top 10
SurelyInTop(r) ==
  Cardinality({q \in Range(filtered) :
     q.idx # r.idx /\ Val(q.estimated_downloads) >= Val(r.estimated_downloads)})
    < SunburstTop

\* C1 as claimed: every record in the top 10 of the FilteredView that has
\* k >= 1 non-empty tags and downloads D has k exploded rows whose
\* downloads_weight values sum to D.
C1_WeightsSumToDownloads ==
  pc = "ran" =>
    \A r \in Range(filtered) :
      LET rows == RowsOf(sb, r.idx)
          total == FracSum([i \in 1..Len(rows) |-> rows[i].downloads_weight])
      IN ((rows # <<>> \/ SurelyInTop(r)) /\ NonEmptyTags(r) >= 1) =>
           /\ Len(rows) = NonEmptyTags(r)
           /\ total.num = Val(r.estimated_downloads) * total.den

TagsOf(rows) == {primary_tag(r) : r \in Range(rows)}

WithTag(rows, t) == {r \in Range(rows) : primary_tag(r) = t}

TagTotal(t) ==
  SumDownloads(FilterSeq(filtered, {i \in 1..Len(filtered) :
                                      primary_tag(filtered[i]) = t}))

KeptTags == {icicle_view[i].primary_tag : i \in 1..Len(icicle_view)}

\* C8: the icicle view keeps min(N, number of tags) primary tags, none with a
\* smaller download total than a tag it drops, and of each kept tag exactly
\* the min(M, number of games) records, none with fewer downloads than a
\* record of that tag it drops.
C8_IcicleTopTagsTopGames ==
  pc = "ran" =>
    /\ Cardinality(IdxOf(icicle_view)) = Len(icicle_view)
    /\ \A v \in Range(icicle_view) :
         \E r \in Range(filtered) :
           /\ r.idx = v.idx
           /\ primary_tag(r) = v.primary_tag
           /\ r.estimated_downloads = v.estimated_downloads
    /\ Cardinality(KeptTags) = Min(max_tags, Cardinality(TagsOf(filtered)))
    /\ \A t \in KeptTags : \A u \in TagsOf(filtered) \ KeptTags :
         TagTotal(t) >= TagTotal(u)
    /\ \A t \in KeptTags :
         LET games == WithTag(filtered, t)
             shown == {r \in games : r.idx \in IdxOf(icicle_view)}
         IN /\ Cardinality(shown) = Min(max_games, Cardinality(games))
            /\ \A r \in shown : \A q \in games \ shown :
                 Val(r.estimated_downloads) >= Val(q.estimated_downloads)

\* C8 witness: N = 3 of more than three tags kept, and M = 3 games of a kept
\* tag that has more.
C8_Witness ==
  /\ pc = "ran"
  /\ max_tags = MaxTagsMin
  /\ max_games = MaxGamesMin
  /\ Cardinality(TagsOf(filtered)) > max_tags
  /\ \E t \in KeptTags : Cardinality(WithTag(filtered, t)) > max_games

====
